---- MODULE Spec2Model ----
(***************************************************************************)
(* A model of the AprilTag pose web application: the detector of           *)
(* src/apriltag.js (class AprilTagDetector) and the application of         *)
(* src/app.js (class AprilTagWebApp).                                      *)
(*                                                                         *)
(* Numbers.  JavaScript numbers are modelled by exact arithmetic:          *)
(*   - a real vector is a record [den, v] and a real 3x3 matrix a record   *)
(*     [den, m]: the integers v (or m) over the common denominator den,    *)
(*     always in lowest terms, so that equal values are equal records;     *)
(*   - a real scalar is a record [num, den] in lowest terms;               *)
(*   - an angle is the point <<c, s>> of the circle of radius TrigScale    *)
(*     with cos = c / TrigScale and sin = s / TrigScale; Angles is the set *)
(*     of the angles whose sine and cosine are both multiples of           *)
(*     1 / TrigScale (the multiples of pi/2 among them).                   *)
(* Floating-point rounding is not modelled.  JavaScript arrays are indexed *)
(* from 0 and TLA+ tuples from 1: R[i][j] of the source is R.m[i+1][j+1].  *)
(***************************************************************************)
EXTENDS Integers, Sequences, FiniteSets, TLC

VARIABLES
    step,             \* how far a harness has got; what the last handler did
    \* ---- the relative pose engine under test (SpecPose, SpecEuler) ----
    pose1, pose2,     \* the two input poses
    matrix,           \* eulerToRotationMatrix(pose1.rotation)
    euler,            \* rotationMatrixToEuler(matrix)
    rebuilt,          \* eulerToRotationMatrix(euler)
    relative,         \* computeRelativeTransformation(pose1, pose2)
    summary,          \* the relativePose panel, as calculateRelativePose leaves it
    \* ---- the detector under test (SpecReducer, SpecLocator, SpecResolver) ----
    frame,            \* the scene the image data is read from (the video's picture)
    detector,         \* the fields of the AprilTagDetector
    gray,             \* convertToGrayscale(imageData)
    candidates,       \* findTagCandidates(grayData, width, height)
    result,           \* detect(imageData): a return value or an exception; in the
                      \* application, the detections the last handler processed
    tagCandidate,     \* the candidate given to validateAndDecode
    decoded,          \* validateAndDecode(tagCandidate, width, height)
    \* ---- the application (Spec) ----
    app,              \* the fields of the AprilTagWebApp
    detectedTags,     \* this.detectedTags, a Map from id to detection
    video,            \* the video element
    page,             \* the controls, inputs and panels of the page
    tasks             \* what the browser has still to run: timers, promises,
                      \* events and animation frame callbacks

engineVars == <<pose1, pose2, matrix, euler, rebuilt, relative, summary>>
detectorVars == <<frame, detector, gray, candidates, result, tagCandidate, decoded>>
appVars == <<app, detectedTags, video, page, tasks>>
vars == <<step, engineVars, detectorVars, appVars>>

\* a variable that holds nothing yet
None == "none"
\* null where the source returns an object or null
Null == [null |-> TRUE]

-----------------------------------------------------------------------------
(* Bounds of the model *)

\* sines and cosines are multiples of 1 / TrigScale
TrigScale == 5
\* translation coordinates are multiples of half a metre, up to MaxCoord halves
MaxCoord == 2

-----------------------------------------------------------------------------
(* Exact arithmetic *)

Abs(n) == IF n < 0 THEN -n ELSE n

RECURSIVE GCD(_, _)
GCD(a, b) == IF b = 0 THEN Abs(a) ELSE GCD(b, a % Abs(b))

GCD3(v) == GCD(v[1], GCD(v[2], v[3]))

\* a vector in lowest terms
ReduceVec(den, v) ==
    LET g == GCD(den, GCD3(v))
    IN  [den |-> den \div g, v |-> <<v[1] \div g, v[2] \div g, v[3] \div g>>]

\* a matrix in lowest terms
ReduceMat(den, m) ==
    LET g == GCD(den, GCD(GCD3(m[1]), GCD(GCD3(m[2]), GCD3(m[3]))))
    IN  [den |-> den \div g,
         m |-> [i \in 1..3 |-> [j \in 1..3 |-> m[i][j] \div g]]]

\* a scalar in lowest terms
Reduce(num, den) ==
    LET g == GCD(num, den) IN [num |-> num \div g, den |-> den \div g]

\* floor of the square root, by bisection on lo..hi
RECURSIVE Bisect(_, _, _)
Bisect(n, lo, hi) ==
    IF lo >= hi THEN lo
    ELSE LET mid == (lo + hi + 1) \div 2
         IN  IF mid * mid <= n THEN Bisect(n, mid, hi) ELSE Bisect(n, lo, mid - 1)

\* Math.sqrt on a non-negative integer: exact on perfect squares, else the floor
Sqrt(n) == Bisect(n, 0, IF n < 46340 THEN n ELSE 46340)

IsSquare(n) == Sqrt(n) * Sqrt(n) = n

-----------------------------------------------------------------------------
(* Angles *)

Angles ==
    {a \in (-TrigScale..TrigScale) \X (-TrigScale..TrigScale) :
        a[1] * a[1] + a[2] * a[2] = TrigScale * TrigScale}

ZeroAngle == <<TrigScale, 0>>
QuarterTurn == <<0, TrigScale>>
NegQuarterTurn == <<0, -TrigScale>>

\* Math.cos and Math.sin, times TrigScale
Cos(a) == a[1]
Sin(a) == a[2]

\* Math.atan2(y, x) has a value in Angles
Atan2Defined(y, x) ==
    \/ x = 0 /\ y = 0
    \/ \E a \in Angles : a[1] * y = a[2] * x /\ a[1] * x + a[2] * y > 0

\* Math.atan2(y, x): the angle of the direction (x, y); atan2(0, 0) = 0
Atan2(y, x) ==
    IF x = 0 /\ y = 0 THEN ZeroAngle
    ELSE CHOOSE a \in Angles : a[1] * y = a[2] * x /\ a[1] * x + a[2] * y > 0

-----------------------------------------------------------------------------
(* The relative pose engine, src/app.js *)

IdentityMatrix == [den |-> 1, m |-> <<<<1, 0, 0>>, <<0, 1, 0>>, <<0, 0, 1>>>>]

ZeroVector == [den |-> 1, v |-> <<0, 0, 0>>]

eulerToRotationMatrix(e) ==
    LET cos_x == Cos(e[1])  sin_x == Sin(e[1])
        cos_y == Cos(e[2])  sin_y == Sin(e[2])
        cos_z == Cos(e[3])  sin_z == Sin(e[3])
        K == TrigScale
    IN  ReduceMat(K * K * K,
          << <<cos_y * cos_z * K, -cos_y * sin_z * K, sin_y * K * K>>,
             <<cos_x * sin_z * K + sin_x * sin_y * cos_z,
               cos_x * cos_z * K - sin_x * sin_y * sin_z,
               -sin_x * cos_y * K>>,
             <<sin_x * sin_z * K - cos_x * sin_y * cos_z,
               sin_x * cos_z * K + cos_x * sin_y * sin_z,
               cos_x * cos_y * K>> >>)

\* transposeMatrix returning its argument as it is
transposeMatrix_NotTransposed(A) == A

transposeMatrix(A) ==
    [den |-> A.den,
     m |-> << <<A.m[1][1], A.m[2][1], A.m[3][1]>>,
              <<A.m[1][2], A.m[2][2], A.m[3][2]>>,
              <<A.m[1][3], A.m[2][3], A.m[3][3]>> >>]

multiplyMatrices(A, B) ==
    ReduceMat(A.den * B.den,
        [i \in 1..3 |-> [j \in 1..3 |->
            A.m[i][1] * B.m[1][j] + A.m[i][2] * B.m[2][j] + A.m[i][3] * B.m[3][j]]])

multiplyMatrixVector(A, x) ==
    ReduceVec(A.den * x.den,
        << A.m[1][1] * x.v[1] + A.m[1][2] * x.v[2] + A.m[1][3] * x.v[3],
           A.m[2][1] * x.v[1] + A.m[2][2] * x.v[2] + A.m[2][3] * x.v[3],
           A.m[3][1] * x.v[1] + A.m[3][2] * x.v[2] + A.m[3][3] * x.v[3] >>)

\* subtractVectors with its operands swapped: v2 - v1
subtractVectors_Swapped(v1, v2) ==
    ReduceVec(v1.den * v2.den,
        << v2.v[1] * v1.den - v1.v[1] * v2.den,
           v2.v[2] * v1.den - v1.v[2] * v2.den,
           v2.v[3] * v1.den - v1.v[3] * v2.den >>)

subtractVectors(v1, v2) ==
    ReduceVec(v1.den * v2.den,
        << v1.v[1] * v2.den - v2.v[1] * v1.den,
           v1.v[2] * v2.den - v2.v[2] * v1.den,
           v1.v[3] * v2.den - v2.v[3] * v1.den >>)

\* computeRelativeTransformation leaving t2 - t1 in the camera frame
computeRelativeTransformation_Unrotated(p1, p2) ==
    LET R1 == eulerToRotationMatrix(p1.rotation)
        R2 == eulerToRotationMatrix(p2.rotation)
        t1 == p1.translation
        t2 == p2.translation
        R1_transpose == transposeMatrix(R1)
        R_relative == multiplyMatrices(R2, R1_transpose)
        t_diff == subtractVectors(t2, t1)
    IN  [translation |-> t_diff, rotationMatrix |-> R_relative]

computeRelativeTransformation(p1, p2) ==
    LET R1 == eulerToRotationMatrix(p1.rotation)
        R2 == eulerToRotationMatrix(p2.rotation)
        t1 == p1.translation
        t2 == p2.translation
        R1_transpose == transposeMatrix(R1)
        R_relative == multiplyMatrices(R2, R1_transpose)
        t_diff == subtractVectors(t2, t1)
        t_relative == multiplyMatrixVector(R1_transpose, t_diff)
    IN  [translation |-> t_relative, rotationMatrix |-> R_relative]

\* 1 / 1e-6, the singularity threshold of rotationMatrixToEuler
SingularInverse == 1000000

\* sy of rotationMatrixToEuler, times R.den
SyOf(R) == Sqrt(R.m[1][1] * R.m[1][1] + R.m[2][1] * R.m[2][1])

\* sy < 1e-6, that is sy * R.den < R.den / 1e6
IsSingular(R) == SyOf(R) < (R.den + SingularInverse - 1) \div SingularInverse

\* the square root and the arctangents of rotationMatrixToEuler(R) are exact
\* in the model's numbers
EulerDefined(R) ==
    /\ IsSquare(R.m[1][1] * R.m[1][1] + R.m[2][1] * R.m[2][1])
    /\ Atan2Defined(-R.m[3][1], SyOf(R))
    /\ IF IsSingular(R)
       THEN Atan2Defined(-R.m[2][3], R.m[2][2])
       ELSE Atan2Defined(R.m[3][2], R.m[3][3]) /\ Atan2Defined(R.m[2][1], R.m[1][1])

\* rotationMatrixToEuler defaulting ry as well as rz in the singular branch
rotationMatrixToEuler_DefaultsPitch(R) ==
    LET sy == SyOf(R)
        singular == IsSingular(R)
    IN  IF ~singular
        THEN << Atan2(R.m[3][2], R.m[3][3]),
                Atan2(-R.m[3][1], sy),
                Atan2(R.m[2][1], R.m[1][1]) >>
        ELSE << Atan2(-R.m[2][3], R.m[2][2]),
                ZeroAngle,
                ZeroAngle >>

rotationMatrixToEuler(R) ==
    LET sy == SyOf(R)
        singular == IsSingular(R)
    IN  IF ~singular
        THEN << Atan2(R.m[3][2], R.m[3][3]),
                Atan2(-R.m[3][1], sy),
                Atan2(R.m[2][1], R.m[1][1]) >>
        ELSE << Atan2(-R.m[2][3], R.m[2][2]),
                Atan2(-R.m[3][1], sy),
                ZeroAngle >>

\* Math.sqrt(t[0] ** 2 + t[1] ** 2 + t[2] ** 2) of calculateRelativePose
Norm(t) == Reduce(Sqrt(t.v[1] * t.v[1] + t.v[2] * t.v[2] + t.v[3] * t.v[3]), t.den)

\* calculateRelativePose hiding the panel only when both tags are missing,
\* and showing it as it is when one is
calculateRelativePose_EitherPresent(panel, tags, tag1Id, tag2Id) ==
    IF tag1Id \notin DOMAIN tags /\ tag2Id \notin DOMAIN tags
    THEN [panel EXCEPT !.display = "none"]
    ELSE IF tag1Id \notin DOMAIN tags \/ tag2Id \notin DOMAIN tags
    THEN [panel EXCEPT !.display = "block"]
    ELSE LET relativePose == computeRelativeTransformation(tags[tag1Id].pose,
                                                           tags[tag2Id].pose)
         IN  [display |-> "block",
              distance |-> Norm(relativePose.translation),
              translation |-> relativePose.translation,
              eulerAngles |-> rotationMatrixToEuler(relativePose.rotationMatrix)]

\* calculateRelativePose: the relativePose panel after the call, from the panel
\* before it (panel), the detectedTags map and the two target ids of the page
calculateRelativePose(panel, tags, tag1Id, tag2Id) ==
    IF tag1Id \notin DOMAIN tags \/ tag2Id \notin DOMAIN tags
    THEN [panel EXCEPT !.display = "none"]
    ELSE LET relativePose == computeRelativeTransformation(tags[tag1Id].pose,
                                                           tags[tag2Id].pose)
             translation == relativePose.translation
             distance == Norm(translation)
             eulerAngles == rotationMatrixToEuler(relativePose.rotationMatrix)
         IN  [display |-> "block",
              distance |-> distance,
              translation |-> translation,
              eulerAngles |-> eulerAngles]

\* The difference of two angles is a number between -2 pi and 2 pi: the
\* record [point, turns] is the angle of the point <<c, s>> of the circle of
\* radius TrigScale * TrigScale, taken in (-pi, pi], plus turns * 2 pi.

\* the angle a of Angles, a number in (-pi, pi], as such a record
Radians(a) == [point |-> <<TrigScale * a[1], TrigScale * a[2]>>, turns |-> 0]

\* the angle of the point is in (0, pi]
Positive(point) == point[2] > 0 \/ (point[2] = 0 /\ point[1] < 0)

\* a is less than b, as numbers in (-pi, pi]
AngleBelow(a, b) ==
    LET rank(c) == IF c[2] < 0 THEN 0
                   ELSE IF c[2] = 0 /\ c[1] > 0 THEN 1
                   ELSE IF c[2] > 0 THEN 2 ELSE 3
    IN  \/ rank(a) < rank(b)
        \/ rank(a) = rank(b) /\ a[1] * b[2] - a[2] * b[1] > 0

\* the number a - b for two angles of Angles
subtractAngles(a, b) ==
    LET point == <<a[1] * b[1] + a[2] * b[2], a[2] * b[1] - a[1] * b[2]>>
    IN  [point |-> point,
         turns |-> IF AngleBelow(b, a) /\ ~Positive(point) THEN 1
                   ELSE IF AngleBelow(a, b) /\ Positive(point) THEN -1
                   ELSE 0]

\* calculateRelativePose of the second class AprilTagWebApp of app.js: the
\* translations and the rotations are subtracted component by component
calculateRelativePoseBySubtraction(panel, tags, tag1Id, tag2Id) ==
    IF tag1Id \notin DOMAIN tags \/ tag2Id \notin DOMAIN tags
    THEN [panel EXCEPT !.display = "none"]
    ELSE LET tag1 == tags[tag1Id]
             tag2 == tags[tag2Id]
             relativeTranslation == subtractVectors(tag2.pose.translation,
                                                    tag1.pose.translation)
             relativeRotation == [i \in 1..3 |->
                                     subtractAngles(tag2.pose.rotation[i],
                                                    tag1.pose.rotation[i])]
         IN  [display |-> "block",
              distance |-> Norm(relativeTranslation),
              translation |-> relativeTranslation,
              eulerAngles |-> relativeRotation]

\* the relativePose panel with nothing written to it yet
EmptyPanel(display) ==
    [display |-> display, distance |-> None, translation |-> None, eulerAngles |-> None]

-----------------------------------------------------------------------------
(* Harness of the relative pose engine: the inputs are drawn in the initial *)
(* state and every action applies one function of the engine to them.       *)

\* the translation (x/2, y/2, z/2) metres
HalfMetres(x, y, z) == ReduceVec(2, <<x, y, z>>)

Translations ==
    {HalfMetres(x, y, z) : x \in 0..(MaxCoord - 1), y \in 0..(MaxCoord - 1), z \in 1..MaxCoord}

Rotations == Angles \X Angles \X Angles

Upright == <<ZeroAngle, ZeroAngle, ZeroAngle>>

Poses == [translation : Translations, rotation : Rotations]

UprightPoses == [translation : Translations, rotation : {Upright}]

\* every pose with itself, and every two poses of axis-aligned markers
PosePairs == {<<p, p>> : p \in Poses} \cup (UprightPoses \X UprightPoses)

EngineIdle ==
    /\ matrix = None /\ euler = None /\ rebuilt = None
    /\ relative = None /\ summary = None

DetectorIdle ==
    /\ gray = None /\ candidates = None /\ result = None /\ decoded = None

\* the variables of the application and of the other harnesses are not used
NoApp ==
    /\ app = None /\ detectedTags = None /\ video = None
    /\ page = None /\ tasks = None

NoDetector ==
    /\ frame = None /\ detector = None /\ tagCandidate = None
    /\ DetectorIdle /\ NoApp

NoEngine == pose1 = None /\ pose2 = None /\ EngineIdle /\ NoApp

InitEuler ==
    /\ pose1 \in [translation : {ZeroVector}, rotation : Rotations]
    /\ pose2 = pose1
    /\ step = "input"
    /\ EngineIdle
    /\ NoDetector

BuildMatrix ==
    /\ step = "input"
    /\ matrix' = eulerToRotationMatrix(pose1.rotation)
    /\ step' = "matrix"
    /\ UNCHANGED <<pose1, pose2, euler, rebuilt, relative, summary>>
    /\ UNCHANGED <<detectorVars, appVars>>

ConvertToEuler ==
    /\ step = "matrix"
    /\ EulerDefined(matrix)
    /\ euler' = rotationMatrixToEuler(matrix)
    /\ step' = "euler"
    /\ UNCHANGED <<pose1, pose2, matrix, rebuilt, relative, summary>>
    /\ UNCHANGED <<detectorVars, appVars>>

RebuildMatrix ==
    /\ step = "euler"
    /\ rebuilt' = eulerToRotationMatrix(euler)
    /\ step' = "rebuilt"
    /\ UNCHANGED <<pose1, pose2, matrix, euler, relative, summary>>
    /\ UNCHANGED <<detectorVars, appVars>>

NextEuler == BuildMatrix \/ ConvertToEuler \/ RebuildMatrix

SpecEuler == InitEuler /\ [][NextEuler]_vars

InitPose ==
    /\ \E pair \in PosePairs : pose1 = pair[1] /\ pose2 = pair[2]
    /\ step = "input"
    /\ EngineIdle
    /\ NoDetector

ComputeRelative ==
    /\ step = "input"
    /\ relative' = computeRelativeTransformation(pose1, pose2)
    /\ step' = "relative"
    /\ UNCHANGED <<pose1, pose2, matrix, euler, rebuilt, summary>>
    /\ UNCHANGED <<detectorVars, appVars>>

\* calculateRelativePose with pose1 detected as tag 0 and pose2 as tag 1
CalculateRelativePose ==
    /\ step = "relative"
    /\ EulerDefined(relative.rotationMatrix)
    /\ summary' = calculateRelativePose(EmptyPanel("none"),
                      (0 :> [pose |-> pose1]) @@ (1 :> [pose |-> pose2]), 0, 1)
    /\ step' = "summary"
    /\ UNCHANGED <<pose1, pose2, matrix, euler, rebuilt, relative>>
    /\ UNCHANGED <<detectorVars, appVars>>

NextPose == ComputeRelative \/ CalculateRelativePose

SpecPose == InitPose /\ [][NextPose]_vars

-----------------------------------------------------------------------------
(* Harness of the two calculateRelativePose of app.js: the pose of tag 0 is   *)
(* one metre in front of the camera, the pose of tag 1 anywhere, and both    *)
(* are turned about at most MaxAxes axes.                                     *)

MaxAxes == 1

\* the rotations with at most MaxAxes angles that are not 0
FewAxes ==
    {r \in Rotations : Cardinality({i \in 1..3 : r[i] # ZeroAngle}) <= MaxAxes}

InitPolicies ==
    /\ pose1 \in [translation : {HalfMetres(0, 0, 2)}, rotation : FewAxes]
    /\ pose2 \in [translation : Translations, rotation : FewAxes]
    /\ step = "input"
    /\ EngineIdle
    /\ NoDetector

\* calculateRelativePose of the first class, with pose1 detected as tag 0 and
\* pose2 as tag 1
ByMatrices ==
    /\ step = "input"
    /\ EulerDefined(computeRelativeTransformation(pose1, pose2).rotationMatrix)
    /\ summary' = calculateRelativePose(EmptyPanel("none"),
                      (0 :> [pose |-> pose1]) @@ (1 :> [pose |-> pose2]), 0, 1)
    /\ step' = "matrices"
    /\ UNCHANGED <<pose1, pose2, matrix, euler, rebuilt, relative>>
    /\ UNCHANGED <<detectorVars, appVars>>

\* calculateRelativePose of the second class on the same two detections; its
\* panel is kept in relative
BySubtraction ==
    /\ step = "matrices"
    /\ relative' = calculateRelativePoseBySubtraction(EmptyPanel("none"),
                      (0 :> [pose |-> pose1]) @@ (1 :> [pose |-> pose2]), 0, 1)
    /\ step' = "compared"
    /\ UNCHANGED <<pose1, pose2, matrix, euler, rebuilt, summary>>
    /\ UNCHANGED <<detectorVars, appVars>>

NextPolicies == ByMatrices \/ BySubtraction

SpecPolicies == InitPolicies /\ [][NextPolicies]_vars

-----------------------------------------------------------------------------
(* The detector, src/apriltag.js *)

\* A scene is what the camera (or a test) shows: a background colour and
\* squares painted over it in order, [x, y, side, colour] with (x, y) the top
\* left pixel.  Colours are <<R, G, B, A>>.
RECURSIVE ColourAt(_, _, _, _)
ColourAt(scene, px, py, n) ==
    IF n = 0 THEN scene.background
    ELSE LET sq == scene.squares[n]
         IN  IF /\ sq.x <= px /\ px < sq.x + sq.side
                /\ sq.y <= py /\ py < sq.y + sq.side
             THEN sq.colour
             ELSE ColourAt(scene, px, py, n - 1)

\* tempCtx.getImageData(0, 0, width, height): the RGBA bytes of the scene, row
\* by row, four per pixel
getImageData(scene) ==
    [width |-> scene.width,
     height |-> scene.height,
     length |-> 4 * scene.width * scene.height,
     data |-> [i \in 0..(4 * scene.width * scene.height - 1) |->
                 ColourAt(scene, (i \div 4) % scene.width, (i \div 4) \div scene.width,
                          Len(scene.squares))[(i % 4) + 1]]]

\* the luma with the blue weight mistyped as 0.144
Luma_WrongWeight(r, g, b) == (299 * r + 587 * g + 144 * b + 500) \div 1000

\* Math.round(0.299 * r + 0.587 * g + 0.114 * b), halves rounded up
Luma(r, g, b) == (299 * r + 587 * g + 114 * b + 500) \div 1000

\* the samples of the Uint8Array(width * height): sample k is written from the
\* bytes 4k .. 4k+2 when the loop over data reaches them, and is 0 otherwise
\* (a byte read past the end is undefined, the sum NaN and the sample 0)
convertToGrayscale(imageData) ==
    [k \in 0..(imageData.width * imageData.height - 1) |->
        IF 4 * k + 2 < imageData.length
        THEN Luma(imageData.data[4 * k], imageData.data[4 * k + 1],
                  imageData.data[4 * k + 2]) % 256
        ELSE 0]

threshold == 128
minTagSize == 30
scanStride == 10
checkRadius == 15
probeStep == 5
probeLimit == 100
minBoxSize == 20

Min(S) == CHOOSE x \in S : \A y \in S : x <= y
Max(S) == CHOOSE x \in S : \A y \in S : x >= y

\* couldBeTagCenter without the lower bound on the share of white pixels
couldBeTagCenter_NoLowerBound(grayData, width, height, x, y) ==
    LET window == {q \in ((x - checkRadius)..(x + checkRadius))
                          \X ((y - checkRadius)..(y + checkRadius)) :
                      q[1] >= 0 /\ q[1] < width /\ q[2] >= 0 /\ q[2] < height}
        totalPixels == Cardinality(window)
        whitePixels == Cardinality({q \in window : grayData[q[2] * width + q[1]] > threshold})
    IN  totalPixels > 0 /\ 5 * whitePixels < 4 * totalPixels

couldBeTagCenter(grayData, width, height, x, y) ==
    LET window == {q \in ((x - checkRadius)..(x + checkRadius))
                          \X ((y - checkRadius)..(y + checkRadius)) :
                      q[1] >= 0 /\ q[1] < width /\ q[2] >= 0 /\ q[2] < height}
        totalPixels == Cardinality(window)
        whitePixels == Cardinality({q \in window : grayData[q[2] * width + q[1]] > threshold})
    IN  \* whiteRatio > 0.2 && whiteRatio < 0.8; 0 / 0 is NaN and fails both
        /\ totalPixels > 0
        /\ 5 * whitePixels > totalPixels
        /\ 5 * whitePixels < 4 * totalPixels

\* the radii 5, 10, ..., 95 of the search loop
Radii == {r \in 1..(probeLimit - 1) : r >= probeStep /\ r % probeStep = 0}

\* findTagBoundaries without the comparison of the width with the height
findTagBoundaries_NoAspectCheck(grayData, width, height, centerX, centerY) ==
    LET minX == Min({centerX} \cup
                    {centerX - r : r \in {q \in Radii :
                        centerX - q >= 0 /\
                        grayData[centerY * width + (centerX - q)] < threshold}})
        maxX == Max({centerX} \cup
                    {centerX + r : r \in {q \in Radii :
                        centerX + q < width /\
                        grayData[centerY * width + (centerX + q)] < threshold}})
        minY == Min({centerY} \cup
                    {centerY - r : r \in {q \in Radii :
                        centerY - q >= 0 /\
                        grayData[(centerY - q) * width + centerX] < threshold}})
        maxY == Max({centerY} \cup
                    {centerY + r : r \in {q \in Radii :
                        centerY + q < height /\
                        grayData[(centerY + q) * width + centerX] < threshold}})
        tagWidth == maxX - minX
        tagHeight == maxY - minY
    IN  IF /\ tagWidth > minBoxSize
           /\ tagHeight > minBoxSize
        THEN [minX |-> minX, maxX |-> maxX, minY |-> minY, maxY |-> maxY]
        ELSE Null

\* the result of findTagBoundaries: a box, or Null
findTagBoundaries(grayData, width, height, centerX, centerY) ==
    LET minX == Min({centerX} \cup
                    {centerX - r : r \in {q \in Radii :
                        centerX - q >= 0 /\
                        grayData[centerY * width + (centerX - q)] < threshold}})
        maxX == Max({centerX} \cup
                    {centerX + r : r \in {q \in Radii :
                        centerX + q < width /\
                        grayData[centerY * width + (centerX + q)] < threshold}})
        minY == Min({centerY} \cup
                    {centerY - r : r \in {q \in Radii :
                        centerY - q >= 0 /\
                        grayData[(centerY - q) * width + centerX] < threshold}})
        maxY == Max({centerY} \cup
                    {centerY + r : r \in {q \in Radii :
                        centerY + q < height /\
                        grayData[(centerY + q) * width + centerX] < threshold}})
        tagWidth == maxX - minX
        tagHeight == maxY - minY
    IN  IF /\ tagWidth > minBoxSize
           /\ tagHeight > minBoxSize
           /\ 10 * Abs(tagWidth - tagHeight) < 3 * tagWidth
        THEN [minX |-> minX, maxX |-> maxX, minY |-> minY, maxY |-> maxY]
        ELSE Null

\* calculateCorners starting the same winding at the bottom left corner
calculateCorners_FromBottomLeft(boundaries) ==
    << <<boundaries.minX, boundaries.maxY>>,
       <<boundaries.minX, boundaries.minY>>,
       <<boundaries.maxX, boundaries.minY>>,
       <<boundaries.maxX, boundaries.maxY>> >>

calculateCorners(boundaries) ==
    << <<boundaries.minX, boundaries.minY>>,
       <<boundaries.maxX, boundaries.minY>>,
       <<boundaries.maxX, boundaries.maxY>>,
       <<boundaries.minX, boundaries.maxY>> >>

\* the number of lattice points minTagSize, minTagSize + scanStride, ... below
\* size - minTagSize
LatticeCount(size) ==
    IF size - minTagSize <= minTagSize THEN 0
    ELSE (size - 2 * minTagSize - 1) \div scanStride + 1

\* the candidates of the lattice points n, n + 1, ... in raster order
RECURSIVE ScanFrom(_, _, _, _)
ScanFrom(grayData, width, height, n) ==
    LET columns == LatticeCount(width)
        x == minTagSize + scanStride * (n % columns)
        y == minTagSize + scanStride * (n \div columns)
        boundaries == findTagBoundaries(grayData, width, height, x, y)
        found == IF couldBeTagCenter(grayData, width, height, x, y) /\ boundaries # Null
                 THEN << [center |-> <<x, y>>,
                          boundaries |-> boundaries,
                          corners |-> calculateCorners(boundaries)] >>
                 ELSE << >>
    IN  IF n >= columns * LatticeCount(height) THEN << >>
        ELSE found \o ScanFrom(grayData, width, height, n + 1)

findTagCandidates(grayData, width, height) == ScanFrom(grayData, width, height, 0)

focalLength == 800
imgCenterX == 320
imgCenterY == 240

NonFinite == "NonFinite"

\* estimatePose measuring the top edge by the sum of its two extents
estimatePose_ManhattanSize(corners, tagSize) ==
    LET sumX == corners[1][1] + corners[2][1] + corners[3][1] + corners[4][1]
        sumY == corners[1][2] + corners[2][2] + corners[3][2] + corners[4][2]
        dx == corners[2][1] - corners[1][1]
        dy == corners[2][2] - corners[1][2]
        pixelSize == Abs(dx) + Abs(dy)
        distance == Reduce(tagSize.num * focalLength, tagSize.den * pixelSize)
        translation ==
            ReduceVec(4 * distance.den * focalLength,
                      << (sumX - 4 * imgCenterX) * distance.num,
                         (sumY - 4 * imgCenterY) * distance.num,
                         4 * focalLength * distance.num >>)
        angle == Atan2(dy, dx)
    IN  [translation |-> IF pixelSize = 0 THEN NonFinite ELSE translation,
         rotation |-> <<ZeroAngle, ZeroAngle, angle>>]

\* estimatePose with the arguments of Math.atan2 exchanged
estimatePose_AngleOfDxDy(corners, tagSize) ==
    LET sumX == corners[1][1] + corners[2][1] + corners[3][1] + corners[4][1]
        sumY == corners[1][2] + corners[2][2] + corners[3][2] + corners[4][2]
        dx == corners[2][1] - corners[1][1]
        dy == corners[2][2] - corners[1][2]
        pixelSize == Sqrt(dx * dx + dy * dy)
        distance == Reduce(tagSize.num * focalLength, tagSize.den * pixelSize)
        translation ==
            ReduceVec(4 * distance.den * focalLength,
                      << (sumX - 4 * imgCenterX) * distance.num,
                         (sumY - 4 * imgCenterY) * distance.num,
                         4 * focalLength * distance.num >>)
        angle == Atan2(dx, dy)
    IN  [translation |-> IF pixelSize = 0 THEN NonFinite ELSE translation,
         rotation |-> <<ZeroAngle, ZeroAngle, angle>>]

\* estimatePose; tagSize is a scalar [num, den] in metres
estimatePose(corners, tagSize) ==
    LET sumX == corners[1][1] + corners[2][1] + corners[3][1] + corners[4][1]
        sumY == corners[1][2] + corners[2][2] + corners[3][2] + corners[4][2]
        dx == corners[2][1] - corners[1][1]
        dy == corners[2][2] - corners[1][2]
        pixelSize == Sqrt(dx * dx + dy * dy)
        distance == Reduce(tagSize.num * focalLength, tagSize.den * pixelSize)
        \* centerX = sumX / 4, x = (centerX - imgCenterX) * distance / focalLength
        translation ==
            ReduceVec(4 * distance.den * focalLength,
                      << (sumX - 4 * imgCenterX) * distance.num,
                         (sumY - 4 * imgCenterY) * distance.num,
                         4 * focalLength * distance.num >>)
        angle == Atan2(dy, dx)
    IN  [translation |-> IF pixelSize = 0 THEN NonFinite ELSE translation,
         rotation |-> <<ZeroAngle, ZeroAngle, angle>>]

\* the identity decided by the half of the frame the centre is in
IdentityOf_HalfSplit(center, width, height) ==
    IF 2 * center[1] < width THEN 0 ELSE 1

\* the identity validateAndDecode gives a centre: 0, 1, or -1 for none
IdentityOf(center, width, height) ==
    IF 10 * center[1] < 6 * width /\ 10 * center[2] < 6 * height THEN 0
    ELSE IF 10 * center[1] > 4 * width THEN 1
    ELSE -1

\* the result of validateAndDecode: a detection, or Null
validateAndDecode(this, candidate, width, height) ==
    LET id == IdentityOf(candidate.center, width, height)
    IN  IF id = -1 THEN Null
        ELSE [id |-> id,
              corners |-> candidate.corners,
              center |-> candidate.center,
              pose |-> estimatePose(candidate.corners, this.tagSize)]

\* the detections of the candidates n, n + 1, ... in order
RECURSIVE DecodeFrom(_, _, _, _, _)
DecodeFrom(this, candidateList, width, height, n) ==
    IF n > Len(candidateList) THEN << >>
    ELSE LET detection == validateAndDecode(this, candidateList[n], width, height)
         IN  (IF detection # Null THEN <<detection>> ELSE << >>)
                \o DecodeFrom(this, candidateList, width, height, n + 1)

\* detect: [threw |-> TRUE, message] or [threw |-> FALSE, value]
detect(this, imageData) ==
    IF ~this.isInitialized
    THEN [threw |-> TRUE, message |-> "Detector not initialized"]
    \* new Uint8Array(n) throws a RangeError for a negative n
    ELSE IF imageData.width * imageData.height < 0
    THEN [threw |-> TRUE, message |-> "Invalid typed array length"]
    ELSE LET grayData == convertToGrayscale(imageData)
             candidateList == findTagCandidates(grayData, imageData.width, imageData.height)
         IN  [threw |-> FALSE,
              value |-> DecodeFrom(this, candidateList, imageData.width, imageData.height, 1)]

\* the detector as its constructor leaves it
NewDetector ==
    [isInitialized |-> FALSE,
     tagFamily |-> "tag36h11",
     tagSize |-> Reduce(5, 100),
     decimate |-> 2,
     blur |-> 0,
     refineEdges |-> TRUE]

-----------------------------------------------------------------------------
(* Harness of the Image Reducer: small frames of every gray level, with or  *)
(* without one pixel of another colour.                                     *)

\* the widths and heights of the small frames are 1..MaxSmall
MaxSmall == 2

Gray(v, a) == <<v, v, v, a>>
IsGray(c) == c[1] = c[2] /\ c[2] = c[3]

Alphas == {0, 255}
Paints == {<<255, 0, 0, 255>>, <<10, 200, 30, 128>>, <<0, 0, 255, 255>>}

SmallScenes ==
    [width : 1..MaxSmall, height : 1..MaxSmall,
     background : {Gray(v, a) : v \in 0..255, a \in Alphas},
     squares : {<< >>} \cup {<< [x |-> 0, y |-> 0, side |-> 1, colour |-> c] >> : c \in Paints}]

InitReducer ==
    /\ frame \in SmallScenes
    /\ detector = NewDetector
    /\ tagCandidate = None
    /\ step = "input"
    /\ DetectorIdle
    /\ NoEngine

ConvertToGrayscale ==
    /\ step = "input"
    /\ gray' = convertToGrayscale(getImageData(frame))
    /\ step' = "gray"
    /\ UNCHANGED <<frame, detector, candidates, result, tagCandidate, decoded>>
    /\ UNCHANGED <<engineVars, appVars>>

NextReducer == ConvertToGrayscale

SpecReducer == InitReducer /\ [][NextReducer]_vars

-----------------------------------------------------------------------------
(* Harness of the Candidate Locator and of detect: uniform frames and frames *)
(* with one square on a uniform background.                                  *)

\* the largest frame is MaxFrame x MaxFrame
MaxFrame == 80

White == Gray(255, 255)
Black == Gray(0, 255)

\* a frame of one pixel, one smaller than the margins, one with a single
\* lattice column, and the largest
FrameSizes == {1, MaxFrame \div 2, 2 * minTagSize + 1, MaxFrame}

GrayLevels == {0, 64, threshold - 1, threshold, threshold + 1, 192, 255}

UniformScenes ==
    [width : FrameSizes, height : FrameSizes,
     background : {Gray(v, 255) : v \in GrayLevels},
     squares : {<< >>}]

SquareSides == {40, 50}

\* the squares of side s that leave a margin of at least 5 pixels
SquareCorners(s) == {c \in 5..(MaxFrame - s - 5) : c % 10 = 5}

Polarities == {<<White, Black>>, <<Black, White>>}

OneSquareScenes ==
    {[width |-> MaxFrame, height |-> MaxFrame, background |-> p[1],
      squares |-> << [x |-> x, y |-> y, side |-> s, colour |-> p[2]] >>] :
        <<p, s, x, y>> \in {q \in Polarities \X SquareSides \X (0..MaxFrame) \X (0..MaxFrame) :
                              q[3] \in SquareCorners(q[2]) /\ q[4] \in SquareCorners(q[2])}}

\* two black squares that overlap in a rectangle, on white
Rectangle(x1, y1, x2, y2, side) ==
    [width |-> MaxFrame, height |-> MaxFrame, background |-> White,
     squares |-> << [x |-> x1, y |-> y1, side |-> side, colour |-> Black],
                    [x |-> x2, y |-> y2, side |-> side, colour |-> Black] >>]

\* a wide and a tall rectangle, and two that are one probe step off a square
\* of the least size
RectangleScenes ==
    {Rectangle(5, 25, 35, 25, 40), Rectangle(25, 5, 25, 35, 40),
     Rectangle(20, 20, 25, 20, minBoxSize + 1), Rectangle(20, 20, 20, 25, minBoxSize + 1)}

LocatorScenes == UniformScenes \cup OneSquareScenes \cup RectangleScenes

IsUniform(scene) == scene.squares = << >>
IsOneSquare(scene) == Len(scene.squares) = 1

InitLocator ==
    /\ frame \in LocatorScenes
    /\ detector \in {NewDetector, [NewDetector EXCEPT !.isInitialized = TRUE]}
    /\ tagCandidate = None
    /\ step = "input"
    /\ DetectorIdle
    /\ NoEngine

\* findTagCandidates as detect calls it
FindTagCandidates ==
    /\ step = "input"
    /\ candidates' = findTagCandidates(convertToGrayscale(getImageData(frame)),
                                       frame.width, frame.height)
    /\ step' = "located"
    /\ UNCHANGED <<frame, detector, gray, result, tagCandidate, decoded>>
    /\ UNCHANGED <<engineVars, appVars>>

Detect ==
    /\ step = "located"
    /\ result' = detect(detector, getImageData(frame))
    /\ step' = "detected"
    /\ UNCHANGED <<frame, detector, gray, candidates, tagCandidate, decoded>>
    /\ UNCHANGED <<engineVars, appVars>>

NextLocator == FindTagCandidates \/ Detect

SpecLocator == InitLocator /\ [][NextLocator]_vars

-----------------------------------------------------------------------------
(* Harness of the Identity Resolver: candidates of one marker size centred  *)
(* on the points of a grid, in a 640 x 480 frame and in a small frame.      *)

\* the candidates' centres are the multiples of GridStep
GridStep == 10

ResolverFrames ==
    {[width |-> 640, height |-> 480], [width |-> 100, height |-> 100]}

\* the candidate of the box of side 40 around (x, y)
CandidateAt(x, y) ==
    LET boundaries == [minX |-> x - 20, maxX |-> x + 20, minY |-> y - 20, maxY |-> y + 20]
    IN  [center |-> <<x, y>>, boundaries |-> boundaries,
         corners |-> calculateCorners(boundaries)]

InitResolver ==
    /\ frame \in ResolverFrames
    /\ \E x \in 0..frame.width, y \in 0..frame.height :
          /\ x % GridStep = 0 /\ y % GridStep = 0
          /\ tagCandidate = CandidateAt(x, y)
    /\ detector = [NewDetector EXCEPT !.isInitialized = TRUE]
    /\ step = "input"
    /\ DetectorIdle
    /\ NoEngine

ValidateAndDecode ==
    /\ step = "input"
    /\ decoded' = validateAndDecode(detector, tagCandidate, frame.width, frame.height)
    /\ step' = "decoded"
    /\ UNCHANGED <<frame, detector, gray, candidates, result, tagCandidate>>
    /\ UNCHANGED <<engineVars, appVars>>

NextResolver == ValidateAndDecode

SpecResolver == InitResolver /\ [][NextResolver]_vars

-----------------------------------------------------------------------------
(* Harness of detect on image data as a caller can hand them over: the       *)
(* declared width and height and the length of the buffer are independent.   *)

\* the small frames have sizes from -MaxTiny to MaxTiny
MaxTiny == 2

\* a buffer of n bytes that are all v
Filled(n, v) == [i \in 0..(n - 1) |-> v]

TinyFrames ==
    {[width |-> w, height |-> h, length |-> 4 * n, data |-> Filled(4 * n, v)] :
        <<w, h, n, v>> \in (-MaxTiny..MaxTiny) \X (-MaxTiny..MaxTiny)
                              \X (0..(MaxTiny * MaxTiny)) \X {0, 255}}

\* the image data of the largest frame with a black square of side 40 at
\* (25, 25) on white
MarkerFrame ==
    getImageData([width |-> MaxFrame, height |-> MaxFrame, background |-> White,
                  squares |-> << [x |-> 25, y |-> 25, side |-> 40, colour |-> Black] >>])

\* MarkerFrame, and its buffer under other declared heights and with its end
\* cut off
MarkerFrames ==
    {MarkerFrame,
     [MarkerFrame EXCEPT !.height = MaxFrame - 10],
     [MarkerFrame EXCEPT !.height = MaxFrame + 10],
     [MarkerFrame EXCEPT !.length = 4 * MaxFrame * (MaxFrame - 10)],
     [MarkerFrame EXCEPT !.width = 0],
     [MarkerFrame EXCEPT !.width = -MaxFrame, !.height = -MaxFrame]}

\* the frame's width or height is not positive, or its buffer has not
\* 4 * width * height bytes
Malformed(imageData) ==
    \/ imageData.width <= 0
    \/ imageData.height <= 0
    \/ imageData.length # 4 * imageData.width * imageData.height

InitFrames ==
    /\ frame \in TinyFrames \cup MarkerFrames
    /\ detector = [NewDetector EXCEPT !.isInitialized = TRUE]
    /\ tagCandidate = None
    /\ step = "input"
    /\ DetectorIdle
    /\ NoEngine

\* detect(imageData) on the image data frame
DetectFrame ==
    /\ step = "input"
    /\ result' = detect(detector, frame)
    /\ step' = "detected"
    /\ UNCHANGED <<frame, detector, gray, candidates, tagCandidate, decoded>>
    /\ UNCHANGED <<engineVars, appVars>>

NextFrames == DetectFrame

SpecFrames == InitFrames /\ [][NextFrames]_vars

-----------------------------------------------------------------------------
(* Harness of the Pose Estimator: squares around a centre, whose top edge    *)
(* corners[1] - corners[0] is a multiple of the direction of an angle of     *)
(* Angles, so that its length and its angle are exact.                       *)

\* the top edge is 2 * k * (cos, sin) * TrigScale for k up to MaxHalfEdge
MaxHalfEdge == 3

EstimatorFrames ==
    {[width |-> 640, height |-> 480],
     [width |-> 320, height |-> 240],
     [width |-> 1280, height |-> 720]}

TagSizes == {Reduce(5, 100), Reduce(10, 100)}

\* the square of centre c whose half top edge is k times the direction a
SquareAround(c, a, k) ==
    LET hx == k * Cos(a)
        hy == k * Sin(a)
    IN  << <<c[1] - hx + hy, c[2] - hy - hx>>,
           <<c[1] + hx + hy, c[2] + hy - hx>>,
           <<c[1] + hx - hy, c[2] + hy + hx>>,
           <<c[1] - hx - hy, c[2] - hy + hx>> >>

\* the same corners with corners[1] moved to twice its distance from corners[0]
Widened(corners) ==
    [corners EXCEPT ![2] = <<2 * corners[2][1] - corners[1][1],
                             2 * corners[2][2] - corners[1][2]>>]

\* the centre of the frame, for even sizes
FrameCenter(f) == <<f.width \div 2, f.height \div 2>>

InitEstimator ==
    /\ frame \in EstimatorFrames
    /\ \E c \in {FrameCenter(frame), <<0, 0>>}, a \in Angles, k \in 0..MaxHalfEdge :
          tagCandidate = [center |-> c,
                          corners |-> SquareAround(c, a, k),
                          edge |-> [direction |-> a, length |-> 2 * k * TrigScale]]
    /\ \E size \in TagSizes : detector = [NewDetector EXCEPT !.tagSize = size]
    /\ step = "input"
    /\ DetectorIdle
    /\ NoEngine

\* estimatePose as validateAndDecode calls it
EstimatePose ==
    /\ step = "input"
    /\ decoded' = estimatePose(tagCandidate.corners, detector.tagSize)
    /\ step' = "estimated"
    /\ UNCHANGED <<frame, detector, gray, candidates, result, tagCandidate>>
    /\ UNCHANGED <<engineVars, appVars>>

\* estimatePose on the same marker seen with a top edge twice as long
EstimateWidened ==
    /\ step = "estimated"
    /\ result' = estimatePose(Widened(tagCandidate.corners), detector.tagSize)
    /\ step' = "widened"
    /\ UNCHANGED <<frame, detector, gray, candidates, tagCandidate, decoded>>
    /\ UNCHANGED <<engineVars, appVars>>

NextEstimator == EstimatePose \/ EstimateWidened

SpecEstimator == InitEstimator /\ [][NextEstimator]_vars

-----------------------------------------------------------------------------
(* Properties of the relative pose engine *)

Oblique(a) == a[1] # 0 /\ a[2] # 0

\* C4: the relative transformation of a pose to itself has translation
\* (0, 0, 0) and the identity matrix as its rotation matrix, for every pose.
C4_IdentityProperty ==
    (step \in {"relative", "summary"} /\ pose2 = pose1) =>
        /\ relative.translation = ZeroVector
        /\ relative.rotationMatrix = IdentityMatrix

\* a pose away from the origin, with three angles that are no multiples of
\* pi/2, has been compared with itself
C4_Witness ==
    /\ step = "relative" /\ pose2 = pose1
    /\ pose1.translation # ZeroVector
    /\ \A i \in 1..3 : Oblique(pose1.rotation[i])
    /\ pose1.rotation[1] # pose1.rotation[2]

\* C5: for Euler angles with ry not in {-pi/2, pi/2}, the matrix rebuilt from
\* rotationMatrixToEuler(eulerToRotationMatrix(rx, ry, rz)) is the matrix
\* eulerToRotationMatrix(rx, ry, rz) itself.
C5_RoundTrip ==
    (step = "rebuilt" /\ pose1.rotation[2] \notin {QuarterTurn, NegQuarterTurn}) =>
        rebuilt = matrix

\* C6: a matrix built from ry = pi/2 is singular for rotationMatrixToEuler
\* (sy < 1e-6), which returns rz = 0 and ry = atan2(-R[2][0], sy) for it.
C6_GimbalLock ==
    (step # "input" /\ pose1.rotation[2] = QuarterTurn) =>
        /\ IsSingular(matrix)
        /\ step \in {"euler", "rebuilt"} =>
              /\ euler[3] = ZeroAngle
              /\ euler[2] = Atan2(-matrix.m[3][1], SyOf(matrix))

\* what rotationMatrixToEuler returns for the matrices of the harness that
\* are not singular
RegularResults ==
    {rotationMatrixToEuler(R) :
        R \in {M \in {eulerToRotationMatrix(r) : r \in Rotations} :
                  ~IsSingular(M) /\ EulerDefined(M)}}

\* C15: what rotationMatrixToEuler returns in its singular branch, with rz
\* defaulted to 0, is returned for no matrix that is not singular
C15_SingularVisible ==
    (step \in {"euler", "rebuilt"} /\ IsSingular(matrix)) =>
        /\ euler[3] = ZeroAngle
        /\ euler \notin RegularResults

\* a singular matrix built from angles of which none is 0 has been converted,
\* and some result of a matrix that is not singular has rz = 0 too
C15_Witness ==
    /\ step = "euler"
    /\ IsSingular(matrix)
    /\ \A i \in 1..3 : pose1.rotation[i] # ZeroAngle
    /\ euler[3] = ZeroAngle
    /\ \E e \in RegularResults : e[3] = ZeroAngle /\ e[1] = euler[1]

TagA == [translation |-> HalfMetres(0, 0, 2), rotation |-> Upright]
TagB == [translation |-> HalfMetres(1, 0, 2), rotation |-> Upright]

\* C7: for tag A at (0, 0, 1.0) and tag B at (0.5, 0, 1.0), both with rotation
\* (0, 0, 0), the relative translation is (0.5, 0, 0), the distance 0.5 m and
\* the relative rotation the identity, Euler angles (0, 0, 0).
C7_EndToEnd ==
    (step = "summary" /\ pose1 = TagA /\ pose2 = TagB) =>
        /\ summary.display = "block"
        /\ summary.translation = HalfMetres(1, 0, 0)
        /\ summary.distance = Reduce(1, 2)
        /\ summary.eulerAngles = Upright
        /\ relative.rotationMatrix = IdentityMatrix

\* the summary of tag A and tag B has been calculated
C7_Witness == step = "summary" /\ pose1 = TagA /\ pose2 = TagB

\* the two panels show the same translation
SameTranslation == summary.translation = relative.translation

\* the two panels show the same three angles
SameRotation ==
    \A i \in 1..3 : Radians(summary.eulerAngles[i]) = relative.eulerAngles[i]

\* the rotation r turns about the axis k by an angle that is not 0, and about
\* no other axis
TurnsAbout(r, k) ==
    r[k] # ZeroAngle /\ \A i \in (1..3) \ {k} : r[i] = ZeroAngle

\* C22, as stated: whenever one of the two poses has an Euler angle that is
\* not 0, the panel of the matrix-based calculateRelativePose differs from the
\* panel of the one that subtracts component by component
C22_PoliciesDisagree ==
    (step = "compared" /\ (pose1.rotation # Upright \/ pose2.rotation # Upright)) =>
        ~(SameTranslation /\ SameRotation)

\* C22, amended: the two panels are the same when neither pose is rotated and
\* when the two poses are equal, rotated or not; their translations are the
\* same when pose1 is not rotated, and differ when pose1 turns about one axis
\* only and t2 - t1 has a component along another axis
C22_PoliciesCompared ==
    step = "compared" =>
        LET t_diff == subtractVectors(pose2.translation, pose1.translation)
        IN  /\ (pose1.rotation = Upright /\ pose2.rotation = Upright) =>
                  SameTranslation /\ SameRotation
            /\ pose1 = pose2 => SameTranslation /\ SameRotation
            /\ pose1.rotation = Upright => SameTranslation
            /\ \A k \in 1..3 :
                  (/\ TurnsAbout(pose1.rotation, k)
                   /\ \E i \in (1..3) \ {k} : t_diff.v[i] # 0) =>
                      ~SameTranslation

\* pose1 turned about z by an oblique angle, pose2 turned about another axis
\* and half a metre to the right: the translations differ
C22_Witness ==
    /\ step = "compared"
    /\ TurnsAbout(pose1.rotation, 3) /\ Oblique(pose1.rotation[3])
    /\ TurnsAbout(pose2.rotation, 1)
    /\ subtractVectors(pose2.translation, pose1.translation) = HalfMetres(1, 0, 0)
    /\ ~SameTranslation

-----------------------------------------------------------------------------
(* Properties of the detector *)

LeftLeaning(c, f) == 5 * c[1] < 3 * f.width /\ 5 * c[2] < 3 * f.height
RightLeaning(c, f) == 5 * c[1] > 2 * f.width

VGA == [width |-> 640, height |-> 480]

\* C1: validateAndDecode gives identity 0 to a centre with x < 0.6 * width
\* and y < 0.6 * height, otherwise identity 1 to a centre with
\* x > 0.4 * width, and rejects every other centre; (200, 200) and (450, 280)
\* in a 640 x 480 frame get the identities 0 and 1.
C1_IdentityBands ==
    step = "decoded" =>
        LET c == tagCandidate.center
        IN  /\ LeftLeaning(c, frame) => decoded # Null /\ decoded.id = 0
            /\ (~LeftLeaning(c, frame) /\ RightLeaning(c, frame)) =>
                  decoded # Null /\ decoded.id = 1
            /\ (~LeftLeaning(c, frame) /\ ~RightLeaning(c, frame)) => decoded = Null
            /\ (frame = VGA /\ c = <<200, 200>>) => decoded # Null /\ decoded.id = 0
            /\ (frame = VGA /\ c = <<450, 280>>) => decoded # Null /\ decoded.id = 1

\* the candidate centred on (450, 280) of a 640 x 480 frame has been decoded
C1_Witness ==
    /\ step = "decoded" /\ frame = VGA
    /\ tagCandidate.center = <<450, 280>>
    /\ decoded # Null

\* the box b is the square sq, to within d pixels on every side
BoxMatches(b, sq, d) ==
    /\ Abs(b.minX - sq.x) <= d /\ Abs(b.maxX - (sq.x + sq.side - 1)) <= d
    /\ Abs(b.minY - sq.y) <= d /\ Abs(b.maxY - (sq.y + sq.side - 1)) <= d

\* C8: a frame with one isolated square of side >= 40 on a uniform background
\* of the opposite colour yields exactly one candidate, whose box is the
\* square to within the scan stride.
C8_OneSquare ==
    (step \in {"located", "detected"} /\ IsOneSquare(frame)) =>
        /\ Len(candidates) = 1
        /\ BoxMatches(candidates[1].boundaries, frame.squares[1], scanStride)

\* C9: a uniform frame yields no candidate from findTagCandidates, and detect
\* (on the initialized detector) returns an empty list of detections for it.
C9_BlankFrame ==
    IsUniform(frame) =>
        /\ step \in {"located", "detected"} => candidates = << >>
        /\ (step = "detected" /\ detector.isInitialized) =>
              result = [threw |-> FALSE, value |-> << >>]

\* detect has returned for a uniform frame of the largest size, all of whose
\* lattice points have been tested
C9_Witness ==
    /\ step = "detected" /\ IsUniform(frame) /\ detector.isInitialized
    /\ frame.width = MaxFrame /\ frame.height = MaxFrame
    /\ LatticeCount(frame.width) * LatticeCount(frame.height) > 1
    /\ frame.background = Gray(threshold + 1, 255)
    /\ ~result.threw

\* C18: every candidate of findTagCandidates has a box with
\* width = maxX - minX > 20, height = maxY - minY > 20 and
\* |width - height| < 0.3 * width, and the corners (minX, minY), (maxX, minY),
\* (maxX, maxY), (minX, maxY) in this order.
C18_BoxConstraints ==
    step \in {"located", "detected"} =>
        \A i \in DOMAIN candidates :
            LET b == candidates[i].boundaries
                boxWidth == b.maxX - b.minX
                boxHeight == b.maxY - b.minY
            IN  /\ boxWidth > 20
                /\ boxHeight > 20
                /\ 10 * Abs(boxWidth - boxHeight) < 3 * boxWidth
                /\ candidates[i].corners =
                      << <<b.minX, b.minY>>, <<b.maxX, b.minY>>,
                         <<b.maxX, b.maxY>>, <<b.minX, b.maxY>> >>

\* the black square of side 40 at (5, 35): the lattice points (30, 40) and
\* (40, 40) are candidates with the box 5..40 x 35..70, and the lattice point
\* (30, 30), which passes couldBeTagCenter, has a box of width 0 and is none
C18_Witness ==
    /\ step = "located"
    /\ frame.background = White
    /\ frame.squares = << [x |-> 5, y |-> 35, side |-> 40, colour |-> Black] >>
    /\ Len(candidates) = 2
    /\ candidates[1].center = <<30, 40>>
    /\ candidates[1].corners = << <<5, 35>>, <<40, 35>>, <<40, 70>>, <<5, 70>> >>
    /\ candidates[2].center = <<40, 40>>
    /\ couldBeTagCenter(convertToGrayscale(getImageData(frame)),
                        frame.width, frame.height, 30, 30)

\* C19: the center of every candidate is the centre of its box,
\* ((minX + maxX) / 2, (minY + maxY) / 2)
C19_CenterOfBox ==
    step \in {"located", "detected"} =>
        \A i \in DOMAIN candidates :
            LET b == candidates[i].boundaries
            IN  /\ 2 * candidates[i].center[1] = b.minX + b.maxX
                /\ 2 * candidates[i].center[2] = b.minY + b.maxY

\* C14: detect on a frame whose width or height is not positive, or whose
\* buffer has not 4 * width * height bytes, throws and returns no detections
C14_MalformedFrame ==
    (step = "detected" /\ Malformed(frame)) => result.threw

\* C26: every detection that detect returns has the identity 0 or 1, a top
\* edge corners[1] - corners[0] with dy = 0 and dx > 0, and the rotation
\* (0, 0, 0)
C26_UprightDetections ==
    (step = "detected" /\ ~result.threw) =>
        \A i \in DOMAIN result.value :
            LET detection == result.value[i]
            IN  /\ detection.id \in {0, 1}
                /\ detection.corners[2][2] = detection.corners[1][2]
                /\ detection.corners[2][1] > detection.corners[1][1]
                /\ detection.pose.rotation = <<ZeroAngle, ZeroAngle, ZeroAngle>>

\* detect has returned detections for a frame with a white square on black,
\* whose candidates have the box of the dark background
C26_Witness ==
    /\ step = "detected"
    /\ ~result.threw
    /\ IsOneSquare(frame) /\ frame.background = Black
    /\ Len(result.value) > 1
    /\ result.value[1].pose.rotation = <<ZeroAngle, ZeroAngle, ZeroAngle>>

\* C10: convertToGrayscale gives width * height samples, and the sample v for
\* every pixel with R = G = B = v, whatever its alpha.
C10_GrayIdentity ==
    step = "gray" =>
        LET img == getImageData(frame)
        IN  /\ DOMAIN gray = 0..(frame.width * frame.height - 1)
            /\ \A k \in 0..(frame.width * frame.height - 1) :
                  IsGray(<<img.data[4 * k], img.data[4 * k + 1], img.data[4 * k + 2]>>)
                      => gray[k] = img.data[4 * k]

\* a frame of gray pixels of level 200 and alpha 0 and one pixel of another
\* colour has been converted
C10_Witness ==
    /\ step = "gray"
    /\ frame.background = Gray(200, 0)
    /\ frame.squares # << >>
    /\ frame.width * frame.height > 1
    /\ gray[1] = 200

\* the z of a pose with a finite translation, as a scalar
DistanceOf(pose) == Reduce(pose.translation.v[3], pose.translation.den)

\* C11: for a top edge of length P > 0, estimatePose reports
\* z = tagSize * focalLength / P, and the same marker with the top edge twice
\* as long gets half that z
C11_Distance ==
    (step \in {"estimated", "widened"} /\ tagCandidate.edge.length > 0) =>
        LET S == detector.tagSize
            P == tagCandidate.edge.length
        IN  /\ DistanceOf(decoded) = Reduce(S.num * focalLength, S.den * P)
            /\ step = "widened" =>
                  /\ DistanceOf(result) = Reduce(S.num * focalLength, S.den * 2 * P)
                  /\ Reduce(2 * DistanceOf(result).num, DistanceOf(result).den)
                        = DistanceOf(decoded)

\* a marker of 0.1 m with an oblique top edge of 20 pixels, and the same
\* marker with a top edge of 40 pixels: 4 m and 2 m
C11_Witness ==
    /\ step = "widened"
    /\ detector.tagSize = Reduce(10, 100)
    /\ tagCandidate.edge.length = 20
    /\ Oblique(tagCandidate.edge.direction)
    /\ DistanceOf(decoded) = Reduce(4, 1)
    /\ DistanceOf(result) = Reduce(2, 1)

\* C12: estimatePose returns the rotation (0, 0, rz), rz the angle of the
\* top edge corners[1] - corners[0] (atan2(0, 0) = 0 for an empty edge)
C12_SingleAxis ==
    step \in {"estimated", "widened"} =>
        /\ decoded.rotation[1] = ZeroAngle
        /\ decoded.rotation[2] = ZeroAngle
        /\ decoded.rotation[3] = IF tagCandidate.edge.length = 0 THEN ZeroAngle
                                 ELSE tagCandidate.edge.direction
        /\ decoded.rotation[3] =
              Atan2(tagCandidate.corners[2][2] - tagCandidate.corners[1][2],
                    tagCandidate.corners[2][1] - tagCandidate.corners[1][1])

\* a square whose top edge has an angle of the second quadrant
C12_Witness ==
    /\ step = "estimated"
    /\ tagCandidate.edge.length > 0
    /\ Cos(tagCandidate.edge.direction) < 0
    /\ Sin(tagCandidate.edge.direction) > 0
    /\ decoded.rotation = <<ZeroAngle, ZeroAngle, tagCandidate.edge.direction>>

-----------------------------------------------------------------------------
(* The application, src/app.js: the class AprilTagWebApp of lines 1-559.    *)
(*                                                                          *)
(* A handler is an operator from the state before the call to the state     *)
(* after it, so that a handler can call another one in the middle of its    *)
(* work.  The state is the record Now: the fields of the application object *)
(* (app, detector, detectedTags), the video element and its picture (video, *)
(* frame), the page (page, relativePose), what the browser has still to run *)
(* (tasks), and what the handler did (detections, outcome).                 *)
(*                                                                          *)
(* Animation frames.  requestAnimationFrame never returns the same handle   *)
(* twice, so all that matters of a handle is whether this.animationFrame    *)
(* holds it: app.animationFrame is "null", "queued" (the handle of a        *)
(* callback that is still to run) or "spent" (the handle of a callback that *)
(* has run or was cancelled), and tasks.detectTags counts the queued        *)
(* detectTags callbacks whose handle this.animationFrame does not hold.     *)
(*                                                                          *)
(* The page.  Of what the handlers write to the page, the model keeps the   *)
(* disabled flags of the buttons, the status line, the detection info, the  *)
(* display of the poseData and relativePose panels and the text of the      *)
(* relativePose panel while it is displayed.  The drawing on the overlay    *)
(* canvas, the style of the video element, the text fields of the two tags  *)
(* and the text of a hidden panel are read by no handler and are left out.  *)

\* at most MaxPending calls of getUserMedia are pending at a time
MaxPending == 2
\* at most MaxQueued animation frame callbacks of one function are queued
MaxQueued == 2
\* the target ids typed into the page are 0..MaxTagId, or no number at all
MaxTagId == 1

\* parseInt of a field that holds no number: NaN, which is the key of no
\* entry of detectedTags
NotANumber == -1

TagIdInputs == (0..MaxTagId) \cup {NotANumber}

\* the values of the settings inputs, as updateDetectorParameters parses them
SettingsChoices ==
    {[tagFamily |-> "tag36h11", tagSize |-> Reduce(5, 100), decimate |-> 2,
      blur |-> 0, refineEdges |-> TRUE],
     [tagFamily |-> "tag25h9", tagSize |-> Reduce(10, 100), decimate |-> 1,
      blur |-> 1, refineEdges |-> FALSE]}

\* what is in front of the camera, in frames of 100 x 61 pixels: nothing, or a
\* marker that three lattice points of the scan see, two of them at the left
\* (id 0) and one at the right (id 1)
CameraScene(squares) ==
    [width |-> 100, height |-> 61, background |-> White, squares |-> squares]

DarkSquare(x, y) == [x |-> x, y |-> y, side |-> 30, colour |-> Black]

CameraScenes ==
    [blank |-> CameraScene(<< >>),
     marker |-> CameraScene(<< DarkSquare(35, 5) >>)]

SceneName(scene) == CHOOSE k \in DOMAIN CameraScenes : CameraScenes[k] = scene

Located(scene) ==
    findTagCandidates(convertToGrayscale(getImageData(scene)), scene.width, scene.height)

\* the candidates of every camera scene, found once
CameraCandidates ==
    [blank |-> Located(CameraScenes.blank),
     marker |-> Located(CameraScenes.marker)]

\* detect(imageData) for the image data of a camera scene, with the candidates
\* of the scene taken from CameraCandidates
detectVideo(this, scene) ==
    IF ~this.isInitialized
    THEN [threw |-> TRUE, message |-> "Detector not initialized"]
    ELSE [threw |-> FALSE,
          value |-> DecodeFrom(this, CameraCandidates[SceneName(scene)],
                               scene.width, scene.height, 1)]

\* the centres <<tag1X, tag1Y, tag2X, tag2Y>> that the formulas of detectDemo
\* give the two demo markers when their sines are 0 and their cosines 1
DemoTimes == {<<200, 230, 450, 320>>}

CornersAround(x, y, half) ==
    << <<x - half, y - half>>, <<x + half, y - half>>,
       <<x + half, y + half>>, <<x - half, y + half>> >>

\* detectDemo: it reads the clock and not the image data
detectDemo(this, time) ==
    << [id |-> 0,
        corners |-> CornersAround(time[1], time[2], 40),
        center |-> <<time[1], time[2]>>,
        pose |-> estimatePose(CornersAround(time[1], time[2], 40), this.tagSize)],
       [id |-> 1,
        corners |-> CornersAround(time[3], time[4], 35),
        center |-> <<time[3], time[4]>>,
        pose |-> estimatePose(CornersAround(time[3], time[4], 35), this.tagSize)] >>

\* setParameters: a parameter that is falsy is not taken over
setParameters(this, params) ==
    [this EXCEPT !.tagFamily = IF params.tagFamily # "" THEN params.tagFamily ELSE @,
                 !.tagSize = IF params.tagSize.num # 0 THEN params.tagSize ELSE @,
                 !.decimate = IF params.decimate # 0 THEN params.decimate ELSE @,
                 !.blur = IF params.blur # 0 THEN params.blur ELSE @,
                 !.refineEdges = params.refineEdges]

Now ==
    [app |-> app, detector |-> detector, detectedTags |-> detectedTags,
     video |-> video, frame |-> frame, page |-> page, tasks |-> tasks,
     relativePose |-> summary, detections |-> << >>, outcome |-> "idle"]

Becomes(s) ==
    /\ app' = s.app
    /\ detector' = s.detector
    /\ detectedTags' = s.detectedTags
    /\ video' = s.video
    /\ frame' = s.frame
    /\ page' = s.page
    /\ tasks' = s.tasks
    /\ summary' = s.relativePose
    /\ result' = s.detections
    /\ step' = s.outcome
    /\ UNCHANGED <<pose1, pose2, matrix, euler, rebuilt, relative>>
    /\ UNCHANGED <<gray, candidates, tagCandidate, decoded>>

updateStatus(s, message, type) ==
    [s EXCEPT !.page.status = [textContent |-> message, className |-> type]]

updateDetectorParameters(s) ==
    [s EXCEPT !.detector = setParameters(@, s.page.settings)]

\* width * 0.8 and width / 2
FourFifths(n) == Reduce(4 * n, 5)
Half(n) == Reduce(n, 2)

updateCameraParameters(s) ==
    [s EXCEPT !.app.cameraMatrix =
        [fx |-> FourFifths(s.video.videoWidth), fy |-> FourFifths(s.video.videoWidth),
         cx |-> Half(s.video.videoWidth), cy |-> Half(s.video.videoHeight)]]

\* requestAnimationFrame(callback); the handle of a detectTags callback is
\* assigned to this.animationFrame, that of animateDemoScene is dropped
requestAnimationFrame(s, callback) ==
    IF callback = "animateDemoScene"
    THEN [s EXCEPT !.tasks.animateDemoScene = @ + 1]
    ELSE [s EXCEPT !.tasks.detectTags = IF s.app.animationFrame = "queued" THEN @ + 1 ELSE @,
                   !.app.animationFrame = "queued"]

\* the queued callbacks of detectTags
QueuedDetectTags(s) ==
    s.tasks.detectTags + (IF s.app.animationFrame = "queued" THEN 1 ELSE 0)

\* the relativePose panel as the page shows it: the text of a hidden panel is
\* not kept
Shown(panel) == IF panel.display = "none" THEN EmptyPanel("none") ELSE panel

updateDetectionInfo(s, detections) ==
    IF Len(detections) = 0
    THEN [s EXCEPT !.page.detectionInfo = [className |-> "error", count |-> 0],
                   !.page.poseData = "none",
                   !.relativePose = Shown([@ EXCEPT !.display = "none"])]
    ELSE [s EXCEPT !.page.detectionInfo = [className |-> "success", count |-> Len(detections)],
                   !.page.poseData = "grid"]

\* Map.set that leaves an existing entry alone
MapSet_KeepFirst(map, key, value) ==
    IF key \in DOMAIN map THEN map
    ELSE [k \in DOMAIN map \cup {key} |-> IF k = key THEN value ELSE map[k]]

\* this.detectedTags.set(key, value)
MapSet(map, key, value) ==
    [k \in DOMAIN map \cup {key} |-> IF k = key THEN value ELSE map[k]]

\* detections.forEach(detection => this.detectedTags.set(detection.id, detection))
\* from the n-th detection on
RECURSIVE SetFrom(_, _, _)
SetFrom(map, detections, n) ==
    IF n > Len(detections) THEN map
    ELSE SetFrom(MapSet(map, detections[n].id, detections[n]), detections, n + 1)

processDetections(s, detections) ==
    LET s1 == [s EXCEPT !.detectedTags = SetFrom(<< >>, detections, 1),
                        !.detections = detections]
        s2 == updateDetectionInfo(s1, detections)
    IN  [s2 EXCEPT !.relativePose =
            Shown(calculateRelativePose(@, s2.detectedTags, s2.page.tag1Id, s2.page.tag2Id))]

\* performAprilTagDetection: the exception of detect is caught and [] returned
performAprilTagDetection(s, time) ==
    LET s1 == updateDetectorParameters(s)
        returned == detectVideo(s1.detector, s1.frame)
    IN  [s1 EXCEPT !.detections =
            IF s1.app.demoCanvas THEN detectDemo(s1.detector, time)
            ELSE IF returned.threw THEN << >> ELSE returned.value]

\* detectTags; the temporary canvas has the size of the demo canvas or of the
\* video, and getImageData throws for a canvas without pixels
detectTags(s, time) ==
    LET width == IF s.app.demoCanvas THEN 640 ELSE s.video.videoWidth
        height == IF s.app.demoCanvas THEN 480 ELSE s.video.videoHeight
        s1 == performAprilTagDetection(s, time)
        s2 == processDetections(s1, s1.detections)
        s3 == requestAnimationFrame(s2, "detectTags")
    IN  IF ~s.app.detectionActive THEN s
        ELSE IF width = 0 \/ height = 0
        THEN updateStatus([s EXCEPT !.outcome = "failed"], "Detection error", "error")
        ELSE [s3 EXCEPT !.outcome = "processed"]

\* animateDemoScene; without a demo canvas this.demoCtx is null and the first
\* use of it throws
animateDemoScene(s) ==
    IF ~s.app.detectionActive THEN s
    ELSE IF ~s.app.demoCanvas THEN [s EXCEPT !.outcome = "uncaught"]
    ELSE requestAnimationFrame(s, "animateDemoScene")

createDemoCanvas(s) ==
    animateDemoScene(
        [s EXCEPT !.app.demoCanvas = TRUE,
                  !.app.cameraMatrix = [fx |-> FourFifths(640), fy |-> FourFifths(640),
                                        cx |-> Reduce(320, 1), cy |-> Reduce(240, 1)]])

startDemoMode(s, time) ==
    LET s1 == createDemoCanvas(s)
        s2 == [s1 EXCEPT !.page.startCamera.disabled = TRUE,
                         !.page.stopCamera.disabled = FALSE]
        s3 == updateStatus(s2, "Demo mode started - simulated detection active", "info")
    IN  detectTags([s3 EXCEPT !.app.detectionActive = TRUE], time)

\* a video element without a source, or with one whose metadata is not loaded
NoPicture(srcObject) == [srcObject |-> srcObject, videoWidth |-> 0, videoHeight |-> 0]

\* startCamera from the point where getUserMedia has resolved
startCamera(s, time) ==
    LET s1 == [s EXCEPT !.app.stream = TRUE,
                        !.video = NoPicture(TRUE),
                        !.frame = Null,
                        !.tasks.loadedmetadata = TRUE,
                        !.page.startCamera.disabled = TRUE,
                        !.page.stopCamera.disabled = FALSE]
        s2 == updateStatus(s1, "Camera started - waiting for AprilTag detection...", "info")
    IN  detectTags([s2 EXCEPT !.app.detectionActive = TRUE], time)

clearResults(s) ==
    [s EXCEPT !.page.detectionInfo = [className |-> "", count |-> 0],
              !.page.poseData = "none",
              !.relativePose = Shown([@ EXCEPT !.display = "none"]),
              !.detectedTags = << >>]

stopCamera(s) ==
    LET s1 == [s EXCEPT !.app.detectionActive = FALSE,
                        !.app.animationFrame = IF @ = "queued" THEN "spent" ELSE @,
                        !.app.stream = FALSE,
                        !.app.demoCanvas = FALSE,
                        !.video = NoPicture(FALSE),
                        !.frame = Null,
                        !.tasks.loadedmetadata = FALSE,
                        !.page.startCamera.disabled = FALSE,
                        !.page.stopCamera.disabled = TRUE,
                        !.outcome = "stopped"]
    IN  clearResults(updateStatus(s1, "Camera stopped", "info"))

\* the state after the constructor has run: initialize() has set its timer
Init ==
    /\ app = [stream |-> FALSE,
              detectionActive |-> FALSE,
              animationFrame |-> "null",
              cameraMatrix |-> [fx |-> Reduce(800, 1), fy |-> Reduce(800, 1),
                                cx |-> Reduce(320, 1), cy |-> Reduce(240, 1)],
              demoCanvas |-> FALSE]
    /\ detectedTags = << >>
    /\ detector = NewDetector
    /\ video = NoPicture(FALSE)
    /\ frame = Null
    /\ \E disabled \in BOOLEAN :
          page = [startCamera |-> [disabled |-> FALSE],
                  stopCamera |-> [disabled |-> disabled],
                  tag1Id |-> 0,
                  tag2Id |-> 1,
                  settings |-> [tagFamily |-> "tag36h11", tagSize |-> Reduce(5, 100),
                                decimate |-> 2, blur |-> 0, refineEdges |-> TRUE],
                  status |-> [textContent |-> "", className |-> ""],
                  detectionInfo |-> [className |-> "", count |-> 0],
                  poseData |-> "none"]
    /\ tasks = [initialize |-> TRUE, getUserMedia |-> 0, loadedmetadata |-> FALSE,
                detectTags |-> 0, animateDemoScene |-> 0]
    /\ summary = EmptyPanel("none")
    /\ result = << >>
    /\ step = "idle"
    /\ pose1 = None /\ pose2 = None /\ matrix = None /\ euler = None
    /\ rebuilt = None /\ relative = None
    /\ gray = None /\ candidates = None /\ tagCandidate = None /\ decoded = None

\* the timer of initialize() fires, and initializeDetector goes on
InitializeTimeout ==
    /\ tasks.initialize
    /\ Becomes(updateStatus([Now EXCEPT !.detector.isInitialized = TRUE,
                                        !.tasks.initialize = FALSE],
                            "Detector initialized - ready to start camera", "info"))

\* a click on Start Camera: startCamera up to its await
ClickStartCamera ==
    /\ ~page.startCamera.disabled
    /\ tasks.getUserMedia < MaxPending
    /\ Becomes([Now EXCEPT !.tasks.getUserMedia = @ + 1])

\* getUserMedia resolves and startCamera goes on
GetUserMediaResolved ==
    /\ tasks.getUserMedia > 0
    /\ QueuedDetectTags(Now) < MaxQueued
    /\ \E time \in DemoTimes :
          Becomes(startCamera([Now EXCEPT !.tasks.getUserMedia = @ - 1], time))

\* getUserMedia rejects and startCamera reports it
GetUserMediaRejected ==
    /\ tasks.getUserMedia > 0
    /\ Becomes(updateStatus([Now EXCEPT !.tasks.getUserMedia = @ - 1],
                            "Error accessing camera", "error"))

\* the video has the metadata and the first picture of its stream
LoadedMetadata ==
    /\ tasks.loadedmetadata
    /\ \E name \in DOMAIN CameraScenes :
          Becomes(updateCameraParameters(
              [Now EXCEPT !.tasks.loadedmetadata = FALSE,
                          !.frame = CameraScenes[name],
                          !.video.videoWidth = CameraScenes[name].width,
                          !.video.videoHeight = CameraScenes[name].height]))

\* the camera sees another scene
CameraFrame ==
    /\ video.videoWidth > 0
    /\ \E name \in DOMAIN CameraScenes :
          /\ CameraScenes[name] # frame
          /\ Becomes([Now EXCEPT !.frame = CameraScenes[name]])

\* a click on Demo Mode
ClickDemoMode ==
    /\ QueuedDetectTags(Now) < MaxQueued
    /\ tasks.animateDemoScene < MaxQueued
    /\ \E time \in DemoTimes : Becomes(startDemoMode(Now, time))

\* a click on Stop
ClickStopCamera ==
    /\ ~page.stopCamera.disabled
    /\ Becomes(stopCamera(Now))

\* an animation frame runs a queued callback of detectTags: the one whose
\* handle this.animationFrame holds, or another one
RunDetectTags ==
    \E held \in BOOLEAN, time \in DemoTimes :
        /\ IF held THEN app.animationFrame = "queued" ELSE tasks.detectTags > 0
        /\ Becomes(detectTags(IF held
                              THEN [Now EXCEPT !.app.animationFrame = "spent"]
                              ELSE [Now EXCEPT !.tasks.detectTags = @ - 1],
                              time))

\* an animation frame runs a queued callback of animateDemoScene
RunAnimateDemoScene ==
    /\ tasks.animateDemoScene > 0
    /\ Becomes(animateDemoScene([Now EXCEPT !.tasks.animateDemoScene = @ - 1]))

\* the user types another target id; no handler listens
EditTagId ==
    \E field \in {"tag1Id", "tag2Id"}, id \in TagIdInputs :
        /\ page[field] # id
        /\ Becomes([Now EXCEPT !.page[field] = id])

\* the user changes the settings, and the change event runs
\* updateDetectorParameters
ChangeSettings ==
    \E settings \in SettingsChoices :
        /\ page.settings # settings
        /\ Becomes(updateDetectorParameters([Now EXCEPT !.page.settings = settings]))

Next ==
    \/ InitializeTimeout
    \/ ClickStartCamera
    \/ GetUserMediaResolved
    \/ GetUserMediaRejected
    \/ LoadedMetadata
    \/ CameraFrame
    \/ ClickDemoMode
    \/ ClickStopCamera
    \/ RunDetectTags
    \/ RunAnimateDemoScene
    \/ EditTagId
    \/ ChangeSettings

Spec == Init /\ [][Next]_vars

-----------------------------------------------------------------------------
(* Properties of the application *)

\* C2: after processDetections(detections), detectedTags holds exactly one
\* entry per identity that occurs in detections, and the entry of an identity
\* that occurs more than once is its last detection in scan order.
C2_KeyedByIdentity ==
    step = "processed" =>
        LET ids == {result[i].id : i \in DOMAIN result}
            last(id) == Max({i \in DOMAIN result : result[i].id = id})
        IN  /\ DOMAIN detectedTags = ids
            /\ \A id \in ids : detectedTags[id] = result[last(id)]

\* a cycle has processed detections in which an identity occurs twice, with
\* different centres
C2_Witness ==
    /\ step = "processed"
    /\ \E i, j \in DOMAIN result :
          /\ i < j
          /\ result[i].id = result[j].id
          /\ result[i].center # result[j].center

C13_NotInitialized ==
    (step = "processed" /\ ~detector.isInitialized) =>
        result = << >> /\ detectedTags = << >>

\* C16: after a cycle of detectTags has failed with detection still active,
\* a next cycle is scheduled: a callback of detectTags is queued
C16_FailureKeepsLoop ==
    (step = "failed" /\ app.detectionActive) => QueuedDetectTags(Now) > 0

\* C17: after a cycle of detectTags, failed or not, detectedTags holds exactly
\* the identities that cycle detected; an identity of an earlier cycle is
\* absent
C17_NoCrossCycleState ==
    step \in {"processed", "failed"} =>
        DOMAIN detectedTags = {result[i].id : i \in DOMAIN result}

\* the translation of a marker with these corners for the camera model
\* camera (fx, cx and cy are scalars): z = tagSize * fx / pixelSize,
\* x = (centerX - cx) * z / fx and y = (centerY - cy) * z / fx
TranslationWith(camera, corners, tagSize) ==
    LET sumX == corners[1][1] + corners[2][1] + corners[3][1] + corners[4][1]
        sumY == corners[1][2] + corners[2][2] + corners[3][2] + corners[4][2]
        dx == corners[2][1] - corners[1][1]
        dy == corners[2][2] - corners[1][2]
        pixelSize == Sqrt(dx * dx + dy * dy)
    IN  ReduceVec(4 * camera.cx.den * camera.cy.den * camera.fx.den * tagSize.den * pixelSize,
                  << (sumX * camera.cx.den - 4 * camera.cx.num)
                        * tagSize.num * camera.cy.den * camera.fx.den,
                     (sumY * camera.cy.den - 4 * camera.cy.num)
                        * tagSize.num * camera.cx.den * camera.fx.den,
                     4 * tagSize.num * camera.fx.num * camera.cx.den * camera.cy.den >>)

\* C20: the pose translations of a cycle are computed with the focal length
\* and the principal point of cameraMatrix, as updateCameraParameters or
\* createDemoCanvas has set it for the size of the frame
C20_ReadsCameraModel ==
    step = "processed" =>
        \A i \in DOMAIN result :
            result[i].pose.translation =
                TranslationWith(app.cameraMatrix, result[i].corners, detector.tagSize)

\* C21: the detector has the five parameters of the settings inputs: the
\* change event of every input and every cycle hand all of them to
\* setParameters
C21_ParametersTakeEffect ==
    /\ detector.tagFamily = page.settings.tagFamily
    /\ detector.tagSize = page.settings.tagSize
    /\ detector.decimate = page.settings.decimate
    /\ detector.blur = page.settings.blur
    /\ detector.refineEdges = page.settings.refineEdges

\* C23: while detection is active, at most one callback of detectTags is
\* queued: there is one chain of animation frames, not several
C23_OneLoop ==
    app.detectionActive => QueuedDetectTags(Now) <= 1

\* C24: when stopCamera was the last handler to run and a getUserMedia call
\* made before it is then settled, detection stays inactive, no stream is held
\* and detectedTags stays empty
C24_StopIsFinal ==
    [][(step = "stopped" /\ tasks'.getUserMedia < tasks.getUserMedia) =>
          (~app'.detectionActive /\ ~app'.stream /\ detectedTags' = << >>)]_vars

\* C25: while the demo mode is active its animation runs: a callback of
\* animateDemoScene is queued for the next animation frame
C25_DemoAnimates ==
    (app.demoCanvas /\ app.detectionActive) => tasks.animateDemoScene > 0

====
